---- MODULE Spec2Model ----
(***************************************************************************)
(* EV Charging Map API (src/main.py, src/schemas.py): the request handlers *)
(* over the "station" collection of the document store.                    *)
(*                                                                         *)
(* Encodings.                                                              *)
(*  - Optional[T]: None is <<>>, a present value v is <<v>>.               *)
(*  - Text that is searched (name, address, city, q, ids) is a sequence of *)
(*    one-character strings, so that substring and regex matching are      *)
(*    computed character by character.  Connector names are plain strings. *)
(*  - Coordinates are in hundredths of a degree, radii in tenths of a      *)
(*    kilometre, |cos| in hundredths; the bounding box is compared in      *)
(*    exact integer arithmetic (no rounding of the floating point          *)
(*    quotients is modelled).                                              *)
(*  - A station carries the fields the handlers read (name, address, city, *)
(*    connectors, power_kw, latitude, longitude); the remaining Station    *)
(*    fields are copied through unchanged by every handler and are left    *)
(*    out.                                                                 *)
(*  - The collection is the sequence of its documents in insertion order;  *)
(*    nothing in the service updates or deletes a document, and the        *)
(*    store-assigned _id of a document is its insertion number.            *)
(***************************************************************************)
EXTENDS Integers, Sequences, FiniteSets, TLC

VARIABLES
    db,          \* "None" or "configured": the store handle, fixed at start
    stations,    \* db["station"]: the documents, in insertion order
    count0,      \* history: the size of the collection when the run began
    req,         \* the request being handled by list/near/create/get
    resp,        \* its response, once the handler has run
    seed,        \* seed[p]: the p-th seed request: position, locals, response
    overlapped   \* history: a seed request began while another was running

vars == <<db, stations, count0, req, resp, seed, overlapped>>

---------------------------------------------------------------------------
(* Bounds of the model *)

MaxStations == 4
BulkOver == 1
NumSeeders == 2

(* Constants of the program *)

DefaultLimit == 200
MaxLimit == 1000
NearCap == 500
DefaultRadius == 250
MaxRadius == 10000
KmPerDegree == 111
CosFloor == 1
MaxLatitude == 9000
MaxLongitude == 18000
OidLen == 24

---------------------------------------------------------------------------
(* Optional values and text *)

None == <<>>
Some(v) == <<v>>

\* Python truthiness of an Optional[str]: None and "" are falsy.
Truthy(o) == o # None /\ Len(o[1]) > 0

UpperChars == <<"A","B","C","D","E","F","G","H","I","J","K","L","M",
                "N","O","P","Q","R","S","T","U","V","W","X","Y","Z">>
LowerChars == <<"a","b","c","d","e","f","g","h","i","j","k","l","m",
                "n","o","p","q","r","s","t","u","v","w","x","y","z">>

\* Case folding of one character (the "i" option of $regex).
Lower(c) ==
    IF \E i \in 1..26 : UpperChars[i] = c
    THEN LowerChars[CHOOSE i \in 1..26 : UpperChars[i] = c]
    ELSE c

\* One pattern character against one text character: "." is the regex
\* wildcard, any other character of the modelled alphabet is a literal.
RegexCharMatches(p, c) == p = "." \/ Lower(p) = Lower(c)

\* {"$regex": pattern, "$options": "i"}: an unanchored search.
RegexSearch(pattern, text) ==
    \E k \in 0..(Len(text) - Len(pattern)) :
        \A i \in 1..Len(pattern) : RegexCharMatches(pattern[i], text[k + i])

---------------------------------------------------------------------------
(* ObjectId: 24 hexadecimal characters *)

HexDigits == <<"0","1","2","3","4","5","6","7","8","9","a","b","c","d","e","f">>

RECURSIVE HexOf(_)
HexOf(n) == IF n = 0 THEN <<>> ELSE Append(HexOf(n \div 16), HexDigits[(n % 16) + 1])

\* str(ObjectId): 24 lower-case hex characters, zero padded.
ObjectIdStr(n) == [i \in 1..(OidLen - Len(HexOf(n))) |-> "0"] \o HexOf(n)

HexValue(c) == CHOOSE v \in 0..15 : HexDigits[v + 1] = Lower(c)

\* ObjectIdValid gone wrong: the characters are checked, the length is not.
ObjectIdValidAnyLength(s) ==
    \A i \in 1..Len(s) : \E v \in 0..15 : HexDigits[v + 1] = Lower(s[i])

\* ObjectId(s) succeeds for a str s of 24 hexadecimal characters and raises
\* InvalidId for any other.
ObjectIdValid(s) ==
    /\ Len(s) = OidLen
    /\ \A i \in 1..Len(s) : \E v \in 0..15 : HexDigits[v + 1] = Lower(s[i])

RECURSIVE ObjectIdValue(_)
\* ObjectId(s) for a valid s, as the number it encodes.
ObjectIdValue(s) ==
    IF s = <<>> THEN 0
    ELSE 16 * ObjectIdValue(SubSeq(s, 1, Len(s) - 1)) + HexValue(s[Len(s)])

---------------------------------------------------------------------------
(* Station schema *)

ConnectorType == {"CCS2", "CHAdeMO", "Type2", "Type3", "Tesla", "GB/T"}

\* Field constraints of schemas.Station.
ValidStation(s) ==
    /\ s.latitude >= -MaxLatitude /\ s.latitude <= MaxLatitude
    /\ s.longitude >= -MaxLongitude /\ s.longitude <= MaxLongitude
    /\ \A i \in 1..Len(s.connectors) : s.connectors[i] \in ConnectorType
    /\ (s.power_kw = None \/ s.power_kw[1] >= 0)

\* The three demo stations of seed_demo_data.
demo == <<
    [name |-> <<"C","h","a","r","g","e","w","a","y"," ","-"," ",
                "I","n","d","i","r","a","n","a","g","a","r">>,
     latitude |-> 1297, longitude |-> 7759,
     address |-> Some(<<"1","0","0"," ","F","e","e","t"," ","R","d",","," ",
                        "I","n","d","i","r","a","n","a","g","a","r">>),
     city |-> Some(<<"B","e","n","g","a","l","u","r","u">>),
     connectors |-> <<"CCS2", "Type2">>, power_kw |-> Some(60)],
    [name |-> <<"C","h","a","r","g","e","w","a","y"," ","-"," ","B","K","C">>,
     latitude |-> 1907, longitude |-> 7287,
     address |-> Some(<<"B","a","n","d","r","a"," ","K","u","r","l","a"," ",
                        "C","o","m","p","l","e","x">>),
     city |-> Some(<<"M","u","m","b","a","i">>),
     connectors |-> <<"CCS2">>, power_kw |-> Some(120)],
    [name |-> <<"C","h","a","r","g","e","w","a","y"," ","-"," ",
                "C","y","b","e","r"," ","C","i","t","y">>,
     latitude |-> 2849, longitude |-> 7709,
     address |-> Some(<<"D","L","F"," ","C","y","b","e","r"," ","C","i","t","y">>),
     city |-> Some(<<"G","u","r","u","g","r","a","m">>),
     connectors |-> <<"CCS2", "CHAdeMO">>, power_kw |-> Some(50)] >>

\* The document of a station: its fields and the _id the store assigned.
Document(s, id) ==
    [_id |-> id, name |-> s.name, latitude |-> s.latitude,
     longitude |-> s.longitude, address |-> s.address, city |-> s.city,
     connectors |-> s.connectors, power_kw |-> s.power_kw]

\* The station fields of a document.
StationOf(d) ==
    [name |-> d.name, latitude |-> d.latitude, longitude |-> d.longitude,
     address |-> d.address, city |-> d.city, connectors |-> d.connectors,
     power_kw |-> d.power_kw]

---------------------------------------------------------------------------
(* The document store: find, limit, find_one, count_documents, insert *)

\* Whether a document satisfies the filter built by list_stations.
\* A key of the filter that is None is absent from the dict.
\*   {"connectors": v}        the array holds v
\*   {"power_kw": {"$gte": x}} the field is a number and >= x
\*   {"city": {"$regex": p}}  the field is a string and p is found in it
\*   {"$or": [name, address]} p is found in the name or in the address
Matches(d, f) ==
    /\ (f.connectors = None
        \/ \E i \in 1..Len(d.connectors) : d.connectors[i] = f.connectors[1])
    /\ (f.power_kw = None
        \/ (d.power_kw # None /\ d.power_kw[1] >= f.power_kw[1]))
    /\ (f.city = None
        \/ (d.city # None /\ RegexSearch(f.city[1], d.city[1])))
    /\ (f.or = None
        \/ RegexSearch(f.or[1], d.name)
        \/ (d.address # None /\ RegexSearch(f.or[1], d.address[1])))

\* A bound "centre +/- num/den" of a range filter, kept as a fraction.
\* {"$gte": c - delta, "$lte": c + delta} on a coordinate x.
InRange(x, c, delta) ==
    /\ (x - c) * delta.den >= -delta.num
    /\ (x - c) * delta.den <= delta.num

\* Whether a document satisfies the filter built by stations_near.
MatchesNear(d, f) ==
    /\ InRange(d.latitude, f.latitude.center, f.latitude.delta)
    /\ InRange(d.longitude, f.longitude.center, f.longitude.delta)

\* limit gone wrong: the cap is not applied.
limit_ignored(docs, n) == docs

\* cursor.limit(n): the first n documents (0 means no limit).
limit(docs, n) ==
    IF n = 0 \/ Len(docs) <= n THEN docs ELSE SubSeq(docs, 1, n)

\* collection.find_one({"_id": id}): None when no document has the id.
find_one(coll, id) ==
    IF \E i \in 1..Len(coll) : coll[i]._id = id
    THEN Some(coll[CHOOSE i \in 1..Len(coll) : coll[i]._id = id])
    ELSE None

\* database.create_document: inserts the station and returns the new id as
\* a string; raises when there is no store or the store fails.
create_document(d, coll, s, storeOk) ==
    IF d = "None" \/ ~storeOk
    THEN [raised |-> TRUE, coll |-> coll, id |-> <<>>]
    ELSE [raised |-> FALSE,
          coll |-> Append(coll, Document(s, Len(coll) + 1)),
          id |-> ObjectIdStr(Len(coll) + 1)]

---------------------------------------------------------------------------
(* Responses *)

Response(status, detail, body, store) ==
    [status |-> status, detail |-> detail, body |-> body, store |-> store]

\* No response yet.
NoResponse == Response(0, "", <<>>, "none")

\* raise HTTPException(status_code, detail) before any store operation.
HTTPException(status, detail) == Response(status, detail, <<>>, "none")

\* The framework's answer to a parameter or body that fails validation.
ValidationError == Response(422, "Unprocessable Entity", <<>>, "none")

\* The framework's answer to an exception no handler catches; in this
\* service only store operations raise one.
InternalServerError == Response(500, "Internal Server Error", <<>>, "failed")

Unconfigured == HTTPException(500, "Database not configured")

\* _to_station_out of a document: id = str(_id), _id dropped.
_to_station_out(d) ==
    [id |-> ObjectIdStr(d._id), name |-> d.name, latitude |-> d.latitude,
     longitude |-> d.longitude, address |-> d.address, city |-> d.city,
     connectors |-> d.connectors, power_kw |-> d.power_kw]

StationOuts(docs) == [i \in 1..Len(docs) |-> _to_station_out(docs[i])]

---------------------------------------------------------------------------
(* GET /api/stations *)

\* limit: int = Query(default=200, ge=1, le=1000)
LimitOf(r) == IF r.limit = None THEN DefaultLimit ELSE r.limit[1]

ValidListQuery(r) == LimitOf(r) >= 1 /\ LimitOf(r) <= MaxLimit

\* MinPowerClause gone wrong: "if min_power:" in place of "is not None".
MinPowerClauseTruthy(r) ==
    IF r.min_power # None /\ r.min_power[1] # 0 THEN Some(r.min_power[1]) ELSE None

\* if min_power is not None: filter_dict["power_kw"] = {"$gte": min_power}
MinPowerClause(r) ==
    IF r.min_power # None THEN Some(r.min_power[1]) ELSE None

\* The filter list_stations builds from its parameters.
filter_dict(r) ==
    [connectors |-> IF Truthy(r.connector) THEN Some(r.connector[1]) ELSE None,
     power_kw |-> MinPowerClause(r),
     city |-> IF Truthy(r.city) THEN Some(r.city[1]) ELSE None,
     or |-> IF Truthy(r.q) THEN Some(r.q[1]) ELSE None]

\* docs = db["station"].find(filter_dict).limit(int(limit))
ListDocs(r, coll) ==
    limit(SelectSeq(coll, LAMBDA d : Matches(d, filter_dict(r))), LimitOf(r))

ListResponse(r, d, coll, storeOk) ==
    IF ~ValidListQuery(r) THEN ValidationError
    ELSE IF d = "None" THEN Unconfigured
    ELSE IF ~storeOk THEN InternalServerError
    ELSE Response(200, "", StationOuts(ListDocs(r, coll)), "ok")

---------------------------------------------------------------------------
(* GET /api/stations/near *)

RadiusOf(r) == IF r.radius_km = None THEN DefaultRadius ELSE r.radius_km[1]

\* lat: ge=-90, le=90; lng: ge=-180, le=180; radius_km: gt=0, le=1000
ValidNearQuery(r) ==
    /\ r.lat >= -MaxLatitude /\ r.lat <= MaxLatitude
    /\ r.lng >= -MaxLongitude /\ r.lng <= MaxLongitude
    /\ RadiusOf(r) > 0 /\ RadiusOf(r) <= MaxRadius

\* abs(cos(lat * pi / 180)) in hundredths, at the latitudes the model
\* queries; cos(pi/2) is 6e-17 in floating point, below the floor.
AbsCos(lat) ==
    CASE lat = 0 -> 100
      [] lat = 6000 \/ lat = -6000 -> 50
      [] lat = 9000 \/ lat = -9000 -> 0

Max(a, b) == IF a >= b THEN a ELSE b

\* lat_delta = radius_km / 111.0, in hundredths of a degree.
lat_delta(radius) == [num |-> radius * 10, den |-> KmPerDegree]

\* lng_delta = radius_km / (111.0 * max(0.01, abs(cos(lat)))).
lng_delta(radius, lat) ==
    [num |-> radius * 1000, den |-> KmPerDegree * Max(CosFloor, AbsCos(lat))]

\* near_filter gone wrong: the two centres are exchanged.
near_filter_swapped(r) ==
    [latitude |-> [center |-> r.lng, delta |-> lat_delta(RadiusOf(r))],
     longitude |-> [center |-> r.lat, delta |-> lng_delta(RadiusOf(r), r.lat)]]

\* The filter stations_near builds.
near_filter(r) ==
    [latitude |-> [center |-> r.lat, delta |-> lat_delta(RadiusOf(r))],
     longitude |-> [center |-> r.lng, delta |-> lng_delta(RadiusOf(r), r.lat)]]

\* docs = db["station"].find(filter_dict).limit(500)
NearDocs(r, coll) ==
    limit(SelectSeq(coll, LAMBDA d : MatchesNear(d, near_filter(r))), NearCap)

NearResponse(r, d, coll, storeOk) ==
    IF ~ValidNearQuery(r) THEN ValidationError
    ELSE IF d = "None" THEN Unconfigured
    ELSE IF ~storeOk THEN InternalServerError
    ELSE Response(200, "", StationOuts(NearDocs(r, coll)), "ok")

---------------------------------------------------------------------------
(* POST /api/stations *)

CreateResponse(r, d, coll, storeOk) ==
    IF ~ValidStation(r.station) THEN ValidationError
    ELSE IF create_document(d, coll, r.station, storeOk).raised
         THEN InternalServerError
         ELSE Response(200, "", create_document(d, coll, r.station, storeOk).id, "ok")

---------------------------------------------------------------------------
(* GET /api/stations/{station_id} *)

\* try: doc = find_one({"_id": ObjectId(station_id)})
\* except Exception: 400 -- whatever was raised inside the try, the invalid
\* id or the store's own failure.
GetResponse(r, d, coll, storeOk) ==
    IF d = "None" THEN Unconfigured
    ELSE IF ~ObjectIdValid(r.station_id)
         THEN HTTPException(400, "Invalid station id")
    ELSE IF ~storeOk
         THEN Response(400, "Invalid station id", <<>>, "failed")
    ELSE IF find_one(coll, ObjectIdValue(r.station_id)) = None
         THEN Response(404, "Station not found", <<>>, "ok")
    ELSE Response(200, "",
                  <<_to_station_out(find_one(coll, ObjectIdValue(r.station_id))[1])>>,
                  "ok")

---------------------------------------------------------------------------
(* POST /api/seed *)

\* AlreadyPresent gone wrong: off by one.
AlreadyPresentOffByOne(count) == count > 1

\* AlreadyPresent gone wrong: the comparison is turned round.
AlreadyPresentInverted(count) == count < 0

\* if count > 0: return {"inserted": 0, "message": "Stations already present"}
AlreadyPresent(count) == count > 0

SeedBody(inserted, message) == <<[inserted |-> inserted, message |-> message]>>

SeedProcs == 1..NumSeeders

SeedIdle == [pc |-> "idle", count |-> 0, inserted |-> 0, resp |-> NoResponse]

---------------------------------------------------------------------------
(* The requests the model sends *)

UserA ==
    [name |-> <<"A","b">>, latitude |-> 0, longitude |-> 0, address |-> None,
     city |-> Some(<<"G","o","a">>), connectors |-> <<"CCS2">>, power_kw |-> None]

UserB ==
    [name |-> <<"x">>, latitude |-> MaxLatitude, longitude |-> MaxLongitude,
     address |-> Some(<<"a","b">>), city |-> None, connectors |-> <<>>,
     power_kw |-> Some(0)]

\* Out of range: rejected by the schema.
UserBad == [UserA EXCEPT !.latitude = MaxLatitude + 100]

ListRequests ==
    [op : {"list"},
     connector : {None, Some(""), Some("CCS2")},
     min_power : {None, Some(0), Some(60)},
     city : {None, Some(<<>>), Some(<<"g","O">>), Some(<<".">>)},
     q : {None, Some(<<>>), Some(<<"A","B">>), Some(<<".">>)},
     limit : {None, Some(0), Some(1), Some(MaxLimit), Some(MaxLimit + 1)}]

NearRequests ==
    [op : {"near"},
     lat : {-MaxLatitude, 0, 6000, MaxLatitude},
     lng : {0, MaxLongitude},
     radius_km : {None, Some(0), Some(1), Some(MaxRadius)}]

CreateRequests == [op : {"create"}, station : {UserA, UserB, UserBad}]

GetRequests ==
    [op : {"get"},
     station_id : {ObjectIdStr(1), ObjectIdStr(MaxStations + 7), <<"1">>,
                   <<"x","y","z">>, [i \in 1..OidLen |-> "g"]}]

Idle == [op |-> "idle"]

\* Collections the service may find when it starts: empty, seeded, holding
\* as many stations as the near cap and more, or more than the largest limit.
Seeded == [i \in 1..Len(demo) |-> Document(demo[i], i)]

Bulk(n) == [i \in 1..n |-> Document(UserA, i)]

InitCollections ==
    {<<>>, Seeded, Bulk(MaxLimit + 1)} \cup {Bulk(NearCap + k) : k \in 0..BulkOver}

InitSeedCollections == {<<>>, Bulk(1), Seeded}

---------------------------------------------------------------------------
(* The state machine *)

Init ==
    /\ db \in {"None", "configured"}
    /\ stations \in (IF db = "None" THEN {<<>>} ELSE InitCollections)
    /\ count0 = Len(stations)
    /\ req = Idle
    /\ resp = NoResponse
    /\ seed = [p \in SeedProcs |-> SeedIdle]
    /\ overlapped = FALSE

InitSeed ==
    /\ db \in {"None", "configured"}
    /\ stations \in (IF db = "None" THEN {<<>>} ELSE InitSeedCollections)
    /\ count0 = Len(stations)
    /\ req = Idle
    /\ resp = NoResponse
    /\ seed = [p \in SeedProcs |-> SeedIdle]
    /\ overlapped = FALSE

\* A request arrives.
Receive(r) ==
    /\ req.op = "idle"
    /\ r.op = "create" => Len(stations) < MaxStations
    /\ req' = r
    /\ UNCHANGED <<db, stations, count0, resp, seed, overlapped>>

list_stations ==
    /\ req.op = "list" /\ resp.status = 0
    /\ \E storeOk \in BOOLEAN : resp' = ListResponse(req, db, stations, storeOk)
    /\ UNCHANGED <<db, stations, count0, req, seed, overlapped>>

stations_near ==
    /\ req.op = "near" /\ resp.status = 0
    /\ \E storeOk \in BOOLEAN : resp' = NearResponse(req, db, stations, storeOk)
    /\ UNCHANGED <<db, stations, count0, req, seed, overlapped>>

create_station ==
    /\ req.op = "create" /\ resp.status = 0
    /\ \E storeOk \in BOOLEAN :
        /\ resp' = CreateResponse(req, db, stations, storeOk)
        /\ stations' = IF ValidStation(req.station)
                       THEN create_document(db, stations, req.station, storeOk).coll
                       ELSE stations
    /\ UNCHANGED <<db, count0, req, seed, overlapped>>

get_station ==
    /\ req.op = "get" /\ resp.status = 0
    /\ \E storeOk \in BOOLEAN : resp' = GetResponse(req, db, stations, storeOk)
    /\ UNCHANGED <<db, stations, count0, req, seed, overlapped>>

\* The response is sent.
Return ==
    /\ resp.status # 0
    /\ req' = Idle
    /\ resp' = NoResponse
    /\ UNCHANGED <<db, stations, count0, seed, overlapped>>

\* seed_demo_data up to its branch on count: the unconfigured check,
\* count_documents({}) and the early return.
seed_count(p) ==
    /\ seed[p].pc = "idle"
    /\ \E storeOk \in BOOLEAN :
        seed' = [seed EXCEPT ![p] =
            IF db = "None"
            THEN [@ EXCEPT !.pc = "done", !.resp = Unconfigured]
            ELSE IF ~storeOk
            THEN [@ EXCEPT !.pc = "done", !.resp = InternalServerError]
            ELSE IF AlreadyPresent(Len(stations))
            THEN [@ EXCEPT !.pc = "done", !.count = Len(stations),
                           !.resp = Response(200, "",
                               SeedBody(0, Some("Stations already present")), "ok")]
            ELSE [@ EXCEPT !.pc = "insert", !.count = Len(stations)]]
    /\ overlapped' = (overlapped \/ \E q \in SeedProcs \ {p} : seed[q].pc = "insert")
    /\ UNCHANGED <<db, stations, count0, req, resp>>

\* One turn of "for s in demo: create_document('station', s); inserted += 1",
\* with the return after the last one.
seed_insert(p) ==
    /\ seed[p].pc = "insert"
    /\ \E storeOk \in BOOLEAN :
        LET r == create_document(db, stations, demo[seed[p].inserted + 1], storeOk)
            n == seed[p].inserted + 1
        IN  /\ stations' = r.coll
            /\ seed' = [seed EXCEPT ![p] =
                   IF r.raised
                   THEN [@ EXCEPT !.pc = "done", !.resp = InternalServerError]
                   ELSE IF n = Len(demo)
                   THEN [@ EXCEPT !.pc = "done", !.inserted = n,
                                  !.resp = Response(200, "", SeedBody(n, None), "ok")]
                   ELSE [@ EXCEPT !.inserted = n]]
    /\ UNCHANGED <<db, count0, req, resp, overlapped>>

\* The handlers with one store operation each, a request at a time.
Next ==
    \/ \E r \in ListRequests : Receive(r)
    \/ \E r \in NearRequests : Receive(r)
    \/ \E r \in CreateRequests : Receive(r)
    \/ \E r \in GetRequests : Receive(r)
    \/ list_stations
    \/ stations_near
    \/ create_station
    \/ get_station
    \/ Return

Spec == Init /\ [][Next]_vars

\* Seed requests, handled concurrently.
NextSeed == \E p \in SeedProcs : seed_count(p) \/ seed_insert(p)

SpecSeed == InitSeed /\ [][NextSeed]_vars

---------------------------------------------------------------------------
(* Vocabulary of the properties *)

\* text contains sub as a literal substring, letter case ignored.
ContainsIgnoreCase(text, sub) ==
    \E k \in 0..(Len(text) - Len(sub)) :
        \A i \in 1..Len(sub) : Lower(sub[i]) = Lower(text[k + i])

HexChars == {"0","1","2","3","4","5","6","7","8","9",
             "a","b","c","d","e","f","A","B","C","D","E","F"}

\* An id in the store's form: 24 hexadecimal characters.
WellFormedId(s) == Len(s) = 24 /\ \A i \in 1..Len(s) : s[i] \in HexChars

\* The ids of a response body, in order.
BodyIds(body) == [i \in 1..Len(body) |-> body[i].id]

DocIds(docs) == [i \in 1..Len(docs) |-> ObjectIdStr(docs[i]._id)]

\* The collection with every power_kw removed.
WithoutPower(coll) == [i \in 1..Len(coll) |-> [coll[i] EXCEPT !.power_kw = None]]

Answered(op) == req.op = op /\ resp.status # 0

Listed == req.op = "list" /\ resp.status = 200

NearListed == req.op = "near" /\ resp.status = 200

AtCentre(d) == d.latitude = req.lat /\ d.longitude = req.lng

InBody(d) == \E j \in 1..Len(resp.body) : resp.body[j].id = ObjectIdStr(d._id)

\* How many documents before the i-th lie in the bounding box of the request.
BoxedBefore(i) ==
    Cardinality({k \in 1..(i - 1) : MatchesNear(stations[k], near_filter(req))})

SeedDone(p) == seed[p].pc = "done"

SeedRunning(p) == seed[p].pc = "insert"

\* The seed requests that have returned.
SeedsDone == {p \in SeedProcs : SeedDone(p)}

\* Two or more seed requests were made, all have returned, all with 200.
SeedsFinished ==
    /\ Cardinality(SeedsDone) >= 2
    /\ \A p \in SeedProcs : ~SeedRunning(p)
    /\ \A p \in SeedsDone : seed[p].resp.status = 200

\* No two documents of the collection hold the same station.
NoStationTwice ==
    \A i, j \in 1..Len(stations) :
        i # j => StationOf(stations[i]) # StationOf(stations[j])

\* What the seed claims promise of a run that began with an empty collection.
SeededOnce ==
    /\ NoStationTwice
    /\ SeedsFinished =>
        /\ stations = Seeded
        /\ Cardinality({p \in SeedsDone : seed[p].resp.body[1].inserted > 0}) <= 1

---------------------------------------------------------------------------
(* The properties *)

\* C1: a seed request that finds at least one record inserts nothing, returns
\* 200 with inserted = 0, and only a request that counted 0 goes on to insert;
\* a seed request that returns 200 leaves the collection non-empty, so a second
\* call in a row finds it so and leaves the record count as the first left it.
C1_SeedIdempotent ==
    [][\A p \in SeedProcs :
        /\ (/\ seed[p].pc = "idle" /\ seed'[p].pc # "idle"
            /\ seed'[p].resp.store # "failed"
            /\ db = "configured" /\ Len(stations) > 0)
           => /\ stations' = stations
              /\ seed'[p].pc = "done"
              /\ seed'[p].resp.status = 200
              /\ seed'[p].resp.body = SeedBody(0, Some("Stations already present"))
        /\ seed'[p].pc = "insert" => seed'[p].count = 0
        /\ (seed'[p].pc = "done" /\ seed'[p].resp.status = 200)
           => Len(stations') > 0]_vars

\* C1 witness: one request inserted the three demo stations and a later one
\* found them, inserted nothing and reported 0.
C1_Witness ==
    \E p, q \in SeedProcs :
        /\ SeedDone(p) /\ seed[p].resp.body = SeedBody(3, None)
        /\ SeedDone(q) /\ seed[q].count = 3
        /\ seed[q].resp.body = SeedBody(0, Some("Stations already present"))
        /\ Len(stations) = 3

\* C2 as stated: a get-by-id with a malformed id is answered 400 in every
\* state of the service, the store configured or not.
C2_MalformedAlways400 ==
    (Answered("get") /\ ~WellFormedId(req.station_id)) => resp.status = 400

\* C2 amended: with the store configured a malformed id is answered 400
\* without any store operation, the collection empty or not; with the store
\* unconfigured it is answered 500 "Database not configured".
C2_MalformedIs400WhenConfigured ==
    (Answered("get") /\ ~WellFormedId(req.station_id)) =>
        IF db = "configured"
        THEN resp.status = 400 /\ resp.store = "none"
        ELSE resp.status = 500 /\ resp.detail = "Database not configured"

\* C2 witness: a malformed id answered 400 over a non-empty collection.
C2_Witness ==
    /\ Answered("get") /\ ~WellFormedId(req.station_id)
    /\ Len(req.station_id) = 1
    /\ db = "configured" /\ Len(stations) > 0
    /\ resp.status = 400

\* C3: with the store unconfigured every data-touching endpoint answers a
\* valid request with 500 "Database not configured" and calls no store
\* operation.
C3_UnconfiguredIsFixed500 ==
    db = "None" =>
        /\ (resp.status # 0 /\ resp.status # 422) =>
            /\ resp.status = 500
            /\ resp.detail = "Database not configured"
            /\ resp.store = "none"
        /\ \A p \in SeedsDone :
            /\ seed[p].resp.status = 500
            /\ seed[p].resp.detail = "Database not configured"
            /\ seed[p].resp.store = "none"

\* C4: a handler whose store operation failed answers 500; for get-by-id
\* with a well-formed id this means 500 and not 400 or 404.
C4_StoreFailureIs500 ==
    /\ resp.store = "failed" => resp.status = 500
    /\ \A p \in SeedsDone : seed[p].resp.store = "failed" => seed[p].resp.status = 500

\* C5: when min_power is supplied, 0 included, every listed station has a
\* power_kw and it is >= min_power; when it is not supplied the stations
\* listed are those listed from the same collection with every power_kw
\* removed: power_kw, present or not, plays no part.
C5_MinPower ==
    Listed =>
        IF req.min_power # None
        THEN \A i \in 1..Len(resp.body) :
                /\ resp.body[i].power_kw # None
                /\ resp.body[i].power_kw[1] >= req.min_power[1]
        ELSE BodyIds(resp.body) = DocIds(ListDocs(req, WithoutPower(stations)))

\* C5 witness: min_power = 0 over a collection with a station without
\* power_kw, which is left out, and a station of power 0, which is listed.
C5_Witness ==
    /\ Listed /\ req.min_power = Some(0)
    /\ \E i \in 1..Len(stations) : stations[i].power_kw = None
    /\ \E j \in 1..Len(resp.body) : resp.body[j].power_kw = Some(0)

\* C6: every listed station satisfies every supplied constraint: its
\* connectors hold connector, its power_kw is >= min_power, its city contains
\* city, and its name or its address contains q.
C6_AllSuppliedConstraints ==
    Listed =>
        \A i \in 1..Len(resp.body) :
            LET s == resp.body[i] IN
            /\ req.connector # None =>
                \E j \in 1..Len(s.connectors) : s.connectors[j] = req.connector[1]
            /\ req.min_power # None =>
                (s.power_kw # None /\ s.power_kw[1] >= req.min_power[1])
            /\ req.city # None =>
                (s.city # None /\ ContainsIgnoreCase(s.city[1], req.city[1]))
            /\ req.q # None =>
                \/ ContainsIgnoreCase(s.name, req.q[1])
                \/ (s.address # None /\ ContainsIgnoreCase(s.address[1], req.q[1]))

\* C7: with city supplied, every listed station that has a city has one that
\* contains the value as a literal substring, letter case ignored, and a
\* station without a city is listed only for an empty value.
C7_CityLiteralSubstring ==
    (Listed /\ req.city # None) =>
        \A i \in 1..Len(resp.body) :
            IF resp.body[i].city = None
            THEN req.city[1] = <<>>
            ELSE ContainsIgnoreCase(resp.body[i].city[1], req.city[1])

\* C8 as stated: a near request that succeeds lists every station located
\* exactly at its centre, whatever else the collection holds.
C8_CentreAlwaysListed ==
    NearListed =>
        \A i \in 1..Len(stations) : AtCentre(stations[i]) => InBody(stations[i])

\* C8 amended: a near request that succeeds lists every station located
\* exactly at its centre that has fewer than 500 stations of the bounding box
\* before it in the collection.
C8_CentreListedWithinCap ==
    NearListed =>
        \A i \in 1..Len(stations) :
            (AtCentre(stations[i]) /\ BoxedBefore(i) < 500) => InBody(stations[i])

\* C8 witness: the collection holds exactly 500 stations, all at the centre,
\* and the smallest radius lists them all.
C8_Witness ==
    /\ NearListed /\ req.radius_km = Some(1)
    /\ Len(stations) = 500
    /\ \A i \in 1..Len(stations) : AtCentre(stations[i]) /\ InBody(stations[i])

\* C9: list returns at most limit stations (200 when not given, never more
\* than 1000) and near at most 500.
C9_ResultBounded ==
    /\ Listed =>
        /\ Len(resp.body) <= (IF req.limit = None THEN 200 ELSE req.limit[1])
        /\ Len(resp.body) <= 1000
    /\ NearListed => Len(resp.body) <= 500

\* C9 witness: more than 500 stations lie in the box and near lists 500.
C9_Witness ==
    /\ NearListed
    /\ Cardinality({k \in 1..Len(stations) :
                        MatchesNear(stations[k], near_filter(req))}) > 500
    /\ Len(resp.body) = 500

\* C10 as stated: seed requests against an initially empty collection,
\* however they interleave, insert no demo station twice; when all have
\* returned the collection holds exactly the three demo records and at most
\* one request reports a non-zero inserted.
C10_SeededOnceConcurrently == count0 = 0 => SeededOnce

\* C10 amended: the same, for seed requests none of which begins while
\* another is still running.
C10_SeededOnceInTurn == (count0 = 0 /\ ~overlapped) => SeededOnce

\* C10 witness: two requests in turn, the first inserted three, the second 0.
C10_Witness ==
    /\ count0 = 0 /\ ~overlapped /\ SeedsFinished
    /\ \E p \in SeedsDone : seed[p].resp.body[1].inserted = 3
    /\ \E q \in SeedsDone : seed[q].resp.body[1].inserted = 0

====
